---- MODULE Spec2Model ----
(***************************************************************************)
(* A model of migrate.py: the profile archive manager (restore_profile),   *)
(* the snapshot primitive (backup_file, copytree_verbose), the domain       *)
(* rewrite rule (replace_host_suffix_in_url, replace_cookie_host), the five *)
(* store rewriters and the orchestrator (rewrite_all).                      *)
(*                                                                         *)
(* Strings are sequences of tokens.  A token is a run of characters that   *)
(* the rewrite rule never splits: the scheme "https://", the old suffix in  *)
(* lower or upper case, a label fragment, or one of the separators          *)
(* ".", "/", ":", "@".                                                      *)
(***************************************************************************)
EXTENDS Integers, Sequences, FiniteSets, TLC

\* ------------------------------------------------------------------ bounds

\* timestamp_str() values are 0..MaxClock (seconds since the session began).
MaxClock == 2
\* rewrite_all is invoked at most MaxRuns times in a session.
MaxRuns == 2

\* ----------------------------------------------------------------- strings

OLD == "test-domain.co"
OLD_UPPER == "TEST-DOMAIN.CO"
SCHEME == "https://"

OLD_DOMAIN_SUFFIX == <<OLD>>
NEW_DOMAIN_SUFFIX == <<OLD, ".", "uk">>

\* str.lower() on one token, and on a string.
LowerTok(t) == IF t = OLD_UPPER THEN OLD ELSE t
Lower(s) == [i \in 1..Len(s) |-> LowerTok(s[i])]

\* Python's None, and the truth value of an Optional[str].
None == <<"<None>">>
Truthy(v) == v # None /\ v # <<>>

\* `sub in s` (Python, case-sensitive).
Contains(s, sub) ==
  \E i \in 1..(Len(s) - Len(sub) + 1) : SubSeq(s, i, i + Len(sub) - 1) = sub

\* `s LIKE '%test-domain.co%'` (SQLite: LIKE ignores ASCII case).
LikeOld(s) == Contains(Lower(s), OLD_DOMAIN_SUFFIX)

\* s.startswith(p), s.endswith(p)
StartsWith(s, p) == Len(s) >= Len(p) /\ SubSeq(s, 1, Len(p)) = p
EndsWith(s, p) == Len(s) >= Len(p) /\ SubSeq(s, Len(s) - Len(p) + 1, Len(s)) = p

\* HOST_SUFFIX_RE = (https?://)([^/@]+?)test\-domain\.co(?=[:/]|$), IGNORECASE.
\* A match starts at token i (the scheme), group 2 is the k >= 1 tokens after
\* it, none holding "/" or "@", then the old suffix in either case, then the
\* lookahead.
ReScheme(t) == t = SCHEME
ReHostChars(t) == t \notin {"/", "@", SCHEME}
ReOld(t) == LowerTok(t) = OLD
ReLookahead(s, j) == j > Len(s) \/ s[j] \in {":", "/"}

ReMatchAt(s, i, k) ==
  /\ i + k + 1 <= Len(s)
  /\ ReScheme(s[i])
  /\ \A j \in (i + 1)..(i + k) : ReHostChars(s[j])
  /\ ReOld(s[i + k + 1])
  /\ ReLookahead(s, i + k + 2)

\* The first match of the search: the leftmost start, and for it the shortest
\* group 2 (the group is lazy).  <<0, 0>> when there is none.
ReSearch(s) ==
  LET starts == {i \in 1..Len(s) : \E k \in 1..Len(s) : ReMatchAt(s, i, k)}
  IN  IF starts = {} THEN <<0, 0>>
      ELSE LET i == CHOOSE x \in starts : \A y \in starts : x <= y
               ks == {k \in 1..Len(s) : ReMatchAt(s, i, k)}
           IN  <<i, CHOOSE x \in ks : \A y \in ks : x <= y>>

\* replace_host_suffix_in_url: subn(_repl, url, count=1); None when n = 0.
replace_host_suffix_in_url(url) ==
  LET m == ReSearch(url)
  IN  IF m[1] = 0 THEN None
      ELSE SubSeq(url, 1, m[1] + m[2]) \o NEW_DOMAIN_SUFFIX
             \o SubSeq(url, m[1] + m[2] + 2, Len(url))

\* replace_cookie_host (nested in rewrite_cookies).
replace_cookie_host(host) ==
  IF host = <<>> THEN None
  ELSE LET leading_dot == host[1] = "."
           core == IF leading_dot THEN Tail(host) ELSE host
       IN  IF EndsWith(Lower(core), OLD_DOMAIN_SUFFIX)
           THEN (IF leading_dot THEN <<".">> ELSE <<>>)
                  \o SubSeq(core, 1, Len(core) - Len(OLD_DOMAIN_SUFFIX))
                  \o NEW_DOMAIN_SUFFIX
           ELSE None

\* REPLACE(X, Y, Z) of SQLite: every occurrence of Y in X, case-sensitive.
RECURSIVE Replace(_, _, _)
Replace(x, y, z) ==
  IF x = <<>> THEN <<>>
  ELSE IF StartsWith(x, y)
       THEN z \o Replace(SubSeq(x, Len(y) + 1, Len(x)), y, z)
       ELSE <<Head(x)>> \o Replace(Tail(x), y, z)

\* s[::-1]: the tokens in reverse order, each token reversed.
ReverseTok(t) ==
  CASE t = OLD -> "oc.niamod-tset"
    [] t = "oc.niamod-tset" -> OLD
    [] t = "uk" -> "ku"
    [] t = "ku" -> "uk"
    [] OTHER -> t
Reverse(s) == [i \in 1..Len(s) |-> ReverseTok(s[Len(s) + 1 - i])]

\* ------------------------------------------------------------------- state

VARIABLES
  clock,            \* the last value timestamp_str() returned
  prof,             \* the profile directory: the four store files
  baks,             \* the *.pre_migration_<ts>.bak files of the profile
  lastSnap,         \* the last backup_file call: its file, ts, and whether
                    \* the destination existed when it was copied
  run,              \* invocations of rewrite_all so far
  dry_run,          \* the mode of the current invocation
  pc,               \* where the current invocation is
  outcome,          \* "idle", "running", "done" (totals printed), "error"
  totals,           \* rewrite_all's totals
  rows,             \* the rows the current rewriter selected (will_update)
  i,                \* the index of its update loop
  candidate_count,  \* its candidate count
  updated,          \* its updated count
  tx,               \* the committed content of the stores when the open
                    \* write transaction began
  start,            \* the stores when the current invocation began
  entry,            \* the stores when the current rewriter was entered
  invoked,          \* the rewriters the current invocation has called
  failedIn,         \* the rewriter in which a store operation raised
  results,          \* what each finished invocation returned to main
  fsys,             \* restore_profile: the directories it works on
  rpc,              \* restore_profile: where it is
  rlog              \* restore_profile: what it has done so far

rewriteVars == <<clock, prof, baks, lastSnap, run, dry_run, pc, outcome,
                 totals, rows, i, candidate_count, updated, tx, start, entry,
                 invoked, failedIn, results>>
restoreVars == <<fsys, rpc, rlog>>
vars == <<clock, prof, baks, lastSnap, run, dry_run, pc, outcome, totals,
          rows, i, candidate_count, updated, tx, start, entry, invoked,
          failedIn, results, fsys, rpc, rlog>>

\* timestamp_str(): the clock has second granularity and never goes back; a
\* call returns the value of the previous call or a later one.
timestamp_str == {t \in {clock, clock + 1} : t <= MaxClock}

\* ------------------------------------------------------------ store inputs

UrlOk == <<SCHEME, "a", ".", OLD, "/">>
UrlNot == <<SCHEME, "not", OLD, "/", "path">>
UrlTwo == <<SCHEME, "a", ".", OLD, "/", "r", SCHEME, "b", ".", OLD, "/">>
UrlBare == <<SCHEME, OLD, "/">>
UrlOther == <<SCHEME, "a", ".", "uk", "/">>
OriginOk == <<SCHEME, "a", ".", OLD>>
OriginNot == <<SCHEME, "not", OLD>>

HostOld == <<"a", ".", OLD>>
HostNew == <<"a", ".", OLD, ".", "uk">>

Origin(host) == [host |-> host, rev_host |-> Reverse(host) \o <<".">>]

\* places.sqlite: moz_places (id = index, url), moz_bookmarks (fk) and
\* moz_origins (host, rev_host).
MissingPlaces ==
  [exists |-> FALSE, moz_places |-> <<>>, moz_bookmarks |-> <<>>,
   moz_origins |-> <<>>]
PlacesPool ==
  { [exists |-> TRUE, moz_places |-> <<UrlTwo, UrlNot>>,
     moz_bookmarks |-> <<2>>, moz_origins |-> <<Origin(HostOld)>>],
    [exists |-> TRUE, moz_places |-> <<UrlTwo, UrlBare>>,
     moz_bookmarks |-> <<1, 1>>, moz_origins |-> <<Origin(HostNew)>>],
    MissingPlaces }

\* formhistory.sqlite: moz_formhistory (id = index, origin), with or without
\* the origin column.
FormHistoryPool ==
  { [exists |-> FALSE, has_origin |-> FALSE, rows |-> <<>>],
    [exists |-> TRUE, has_origin |-> FALSE, rows |-> <<>>],
    [exists |-> TRUE, has_origin |-> TRUE, rows |-> <<OriginOk, UrlOther>>] }

\* cookies.sqlite: moz_cookies rows.
Cookie(id, name, host) ==
  [id |-> id, name |-> name, host |-> host, path |-> "/", oa |-> ""]
CookiesPool ==
  { [exists |-> FALSE, rows |-> {}],
    [exists |-> TRUE,
     rows |-> {Cookie(1, "sid", <<".">> \o HostOld),
               Cookie(2, "sid", <<".">> \o HostNew)}],
    [exists |-> TRUE,
     rows |-> {Cookie(1, "sid", HostOld),
               Cookie(2, "sid", <<"a", ".", OLD_UPPER>>),
               Cookie(3, "sid", <<"not", OLD>>)}] }

\* logins.json: the "logins" list; intact is false once a write of the file
\* has failed part-way (the session ends there, so no rewriter reads it).
Login(hostname, formSubmitURL, httpRealm) ==
  [hostname |-> hostname, formSubmitURL |-> formSubmitURL,
   httpRealm |-> httpRealm]
LoginsPool ==
  { [exists |-> FALSE, intact |-> TRUE, logins |-> <<>>],
    [exists |-> TRUE, intact |-> TRUE,
     logins |-> <<Login(OriginOk, OriginNot, None),
                  Login(<<"a", ".", OLD>>, None, OriginOk)>>] }

\* The store files of the profile directory: places.sqlite,
\* formhistory.sqlite, cookies.sqlite, logins.json (the fields of prof).
FILES == {"places", "formhistory", "cookies", "logins"}

\* backup_file: shutil.copy2(path, b) with b named after the file and
\* timestamp_str().  copy2 replaces an existing destination.
SnapshotExists(file, ts) == \E b \in baks : b.file = file /\ b.ts = ts
backup_file(file, ts) ==
  /\ clock' = ts
  /\ baks' = {b \in baks : ~(b.file = file /\ b.ts = ts)}
               \cup {[file |-> file, ts |-> ts, content |-> prof[file]]}
  /\ lastSnap' = [file |-> file, ts |-> ts, existed |-> SnapshotExists(file, ts)]

NoSnap == [file |-> "", ts |-> 0, existed |-> FALSE]
NoTotals == [candidates |-> 0, updated |-> 0]

\* ---------------------------------------------------- directories (restore)

\* A directory is a function from entry names to contents; 0: no such entry.
NumContents == 2
NAMES == {"places.sqlite", "prefs.js"}
Dirs == [NAMES -> 0..NumContents]
Entries(d) == {n \in NAMES : d[n] # 0}
EmptyDir == [n \in NAMES |-> 0]

\* The source of a restore: a directory, a file, or nothing at that path.
Sources ==
  {[exists |-> FALSE, is_dir |-> FALSE, dir |-> EmptyDir],
   [exists |-> TRUE, is_dir |-> FALSE, dir |-> EmptyDir]}
    \cup {[exists |-> TRUE, is_dir |-> TRUE, dir |-> d] : d \in Dirs}

NoRestoreLog ==
  [target0 |-> EmptyDir, siblings0 |-> {}, deleted |-> {}, copied |-> {},
   stage |-> "", snap |-> -1]

\* No restore is in progress.
RestoreIdle ==
  /\ fsys = [target |-> EmptyDir, src |-> CHOOSE x \in Sources : ~x.exists,
             siblings |-> {}]
  /\ rpc = "none"
  /\ rlog = NoRestoreLog

\* No rewrite is in progress (the stores are not looked at).
NoProfile ==
  [places |-> MissingPlaces,
   formhistory |-> [exists |-> FALSE, has_origin |-> FALSE, rows |-> <<>>],
   cookies |-> [exists |-> FALSE, rows |-> {}],
   logins |-> [exists |-> FALSE, intact |-> TRUE, logins |-> <<>>]]

Profiles ==
  [places : PlacesPool, formhistory : FormHistoryPool, cookies : CookiesPool,
   logins : LoginsPool]

InitRewrite(profiles) ==
  /\ clock = 0
  /\ prof \in profiles
  /\ baks = {}
  /\ lastSnap = NoSnap
  /\ run = 0
  /\ dry_run = FALSE
  /\ pc = "main"
  /\ outcome = "idle"
  /\ totals = NoTotals
  /\ rows = <<>>
  /\ i = 0
  /\ candidate_count = 0
  /\ updated = 0
  /\ tx = prof
  /\ start = prof
  /\ entry = prof
  /\ invoked = <<>>
  /\ failedIn = ""
  /\ results = <<>>

Init ==
  /\ InitRewrite(Profiles)
  /\ RestoreIdle

\* ------------------------------------------------------------ control flow

loopVars == <<rows, i, candidate_count, updated>>
auxVars == <<start, invoked, failedIn>>

\* A rewriter returns (c, u) to rewrite_all, which adds them to the totals
\* and calls the next rewriter (or prints the totals).
Return(c, u, next) ==
  /\ totals' = [candidates |-> totals.candidates + c,
                updated |-> totals.updated + u]
  /\ pc' = next
  /\ UNCHANGED <<run, dry_run, outcome, results, start, failedIn>>

\* rewrite_all calls the rewriter fn.
Call(fn) ==
  /\ invoked' = Append(invoked, fn)
  /\ entry' = prof

\* An exception leaves the rewriter fn and rewrite_all; main prints it and
\* exits with status 1.
Raise(fn) ==
  /\ pc' = "exit"
  /\ outcome' = "error"
  /\ failedIn' = fn
  /\ results' = Append(results, [dry_run |-> dry_run, outcome |-> "error",
                                 totals |-> NoTotals, start |-> start,
                                 failedIn |-> fn])
  /\ UNCHANGED <<run, dry_run, totals, start>>

\* Rollback, had the statements been committed one by one (no rollback of
\* what was already written).
NoRollback(file) == prof

\* conn.rollback(), or conn.close() with a write transaction open: the
\* database goes back to its committed content.
Rollback(file) == [prof EXCEPT ![file] = tx[file]]

\* main, command rewrite-all: rewrite_all(prof, dry_run=args.dry_run).  A
\* session is a sequence of invocations on the same profile and ends at the
\* first one that fails.
main ==
  /\ UNCHANGED restoreVars
  /\ pc = "main"
  /\ run < MaxRuns
  /\ \E d \in BOOLEAN : dry_run' = d
  /\ run' = run + 1
  /\ outcome' = "running"
  /\ totals' = NoTotals
  /\ pc' = "rewrite_history"
  /\ start' = prof
  /\ entry' = prof
  /\ tx' = prof
  /\ invoked' = <<>>
  /\ failedIn' = ""
  /\ rows' = <<>> /\ i' = 0 /\ candidate_count' = 0 /\ updated' = 0
  /\ UNCHANGED <<clock, prof, baks, lastSnap, results>>

\* rewrite_all after the loop: print the totals; main returns.
rewrite_all_done ==
  /\ UNCHANGED restoreVars
  /\ pc = "totals"
  /\ pc' = "main"
  /\ outcome' = "done"
  /\ results' = Append(results, [dry_run |-> dry_run, outcome |-> "done",
                                 totals |-> totals, start |-> start,
                                 failedIn |-> failedIn])
  /\ UNCHANGED <<clock, prof, baks, lastSnap, run, dry_run, totals, tx, entry>>
  /\ UNCHANGED loopVars
  /\ UNCHANGED auxVars

\* -------------------------------------------------- history and bookmarks

\* SELECT id, url FROM moz_places WHERE url LIKE ?
SelectPlaces(db) ==
  SelectSeq([k \in 1..Len(db.moz_places) |-> [id |-> k, url |-> db.moz_places[k]]],
            LAMBDA r : LikeOld(r.url))

\* SELECT mp.id, mp.url FROM moz_bookmarks mb JOIN moz_places mp
\* ON mp.id = mb.fk WHERE mp.url LIKE ?
SelectBookmarks(db) ==
  SelectSeq([k \in 1..Len(db.moz_bookmarks) |->
               [id |-> db.moz_bookmarks[k],
                url |-> db.moz_places[db.moz_bookmarks[k]]]],
            LAMBDA r : LikeOld(r.url))

\* One iteration of `for pid, url in rows`: the UPDATE of moz_places when the
\* rule matches and changes the url.
UpdateUrlRow ==
  /\ i <= Len(rows)
  /\ LET url == rows[i].url
         new_url == replace_host_suffix_in_url(url)
     IN  IF Truthy(new_url) /\ new_url # url
         THEN /\ prof' = [prof EXCEPT !.places.moz_places[rows[i].id] = new_url]
              /\ updated' = updated + 1
         ELSE UNCHANGED <<prof, updated>>
  /\ i' = i + 1
  /\ UNCHANGED <<clock, baks, lastSnap, run, dry_run, pc, outcome, totals,
                 rows, candidate_count, tx, entry, results>>
  /\ UNCHANGED auxVars

\* rewrite_history, places.sqlite missing: FileNotFoundError.
history_missing ==
  /\ UNCHANGED restoreVars
  /\ pc = "rewrite_history"
  /\ ~prof.places.exists
  /\ Call("history")
  /\ Raise("history")
  /\ UNCHANGED <<clock, prof, baks, lastSnap, tx>>
  /\ UNCHANGED loopVars

\* rewrite_history up to the dry-run return or BEGIN IMMEDIATE.
history_open ==
  /\ UNCHANGED restoreVars
  /\ pc = "rewrite_history"
  /\ prof.places.exists
  /\ Call("history")
  /\ \E ts \in timestamp_str : backup_file("places", ts)
  /\ rows' = SelectPlaces(prof.places)
  /\ candidate_count' = Len(rows')
  /\ i' = 1
  /\ updated' = 0
  /\ tx' = prof
  /\ UNCHANGED prof
  /\ IF dry_run
     THEN Return(candidate_count', 0, "rewrite_bookmarks")
     ELSE /\ pc' = "history_update"
          /\ UNCHANGED <<run, dry_run, outcome, totals, results, start,
                         failedIn>>

history_update ==
  /\ UNCHANGED restoreVars
  /\ pc = "history_update"
  /\ UpdateUrlRow

\* conn.commit() of the url updates, then BEGIN IMMEDIATE of the host-index
\* pass.
history_commit ==
  /\ UNCHANGED restoreVars
  /\ pc = "history_update"
  /\ i > Len(rows)
  /\ tx' = prof
  /\ pc' = "origins_host"
  /\ UNCHANGED <<clock, prof, baks, lastSnap, run, dry_run, outcome, totals,
                 entry, results>>
  /\ UNCHANGED loopVars
  /\ UNCHANGED auxVars

\* A statement of the url transaction (BEGIN, an UPDATE, the commit) raises
\* sqlite3.Error: `finally: conn.close()` drops the open transaction.
history_raise ==
  /\ UNCHANGED restoreVars
  /\ pc = "history_update"
  /\ prof' = Rollback("places")
  /\ Raise("history")
  /\ UNCHANGED <<clock, baks, lastSnap, tx, invoked, entry>>
  /\ UNCHANGED loopVars

\* UPDATE moz_origins SET host = REPLACE(host, ?, ?)
origins_host ==
  /\ UNCHANGED restoreVars
  /\ pc = "origins_host"
  /\ prof' = [prof EXCEPT !.places.moz_origins =
                [k \in 1..Len(@) |->
                   [@[k] EXCEPT !.host =
                      Replace(@, OLD_DOMAIN_SUFFIX, NEW_DOMAIN_SUFFIX)]]]
  /\ pc' = "origins_rev_host"
  /\ UNCHANGED <<clock, baks, lastSnap, run, dry_run, outcome, totals, tx,
                 entry, results>>
  /\ UNCHANGED loopVars
  /\ UNCHANGED auxVars

\* UPDATE moz_origins SET rev_host = REPLACE(rev_host, ?, ?)
origins_rev_host ==
  /\ UNCHANGED restoreVars
  /\ pc = "origins_rev_host"
  /\ prof' = [prof EXCEPT !.places.moz_origins =
                [k \in 1..Len(@) |->
                   [@[k] EXCEPT !.rev_host =
                      Replace(@, Reverse(OLD_DOMAIN_SUFFIX),
                              Reverse(NEW_DOMAIN_SUFFIX))]]]
  /\ pc' = "origins_commit"
  /\ UNCHANGED <<clock, baks, lastSnap, run, dry_run, outcome, totals, tx,
                 entry, results>>
  /\ UNCHANGED loopVars
  /\ UNCHANGED auxVars

\* conn.commit() of the host-index pass; rewrite_history returns.
origins_commit ==
  /\ UNCHANGED restoreVars
  /\ pc = "origins_commit"
  /\ tx' = prof
  /\ UNCHANGED prof
  /\ Return(candidate_count, updated, "rewrite_bookmarks")
  /\ UNCHANGED <<clock, baks, lastSnap, invoked, entry>>
  /\ UNCHANGED loopVars

\* except sqlite3.Error: conn.rollback() of the host-index pass; the error is
\* swallowed and rewrite_history returns.
origins_except ==
  /\ UNCHANGED restoreVars
  /\ pc \in {"origins_host", "origins_rev_host", "origins_commit"}
  /\ prof' = Rollback("places")
  /\ Return(candidate_count, updated, "rewrite_bookmarks")
  /\ UNCHANGED <<clock, baks, lastSnap, tx, invoked, entry>>
  /\ UNCHANGED loopVars

rewrite_history ==
  \/ history_missing
  \/ history_open
  \/ history_update
  \/ history_commit
  \/ history_raise
  \/ origins_host
  \/ origins_rev_host
  \/ origins_commit
  \/ origins_except

\* rewrite_bookmarks up to the dry-run return or BEGIN IMMEDIATE.  Its check
\* for places.sqlite cannot fail in rewrite_all: rewrite_history has passed
\* the same check and nothing removes the file.
bookmarks_open ==
  /\ UNCHANGED restoreVars
  /\ pc = "rewrite_bookmarks"
  /\ prof.places.exists
  /\ Call("bookmarks")
  /\ \E ts \in timestamp_str : backup_file("places", ts)
  /\ rows' = SelectBookmarks(prof.places)
  /\ candidate_count' = Len(rows')
  /\ i' = 1
  /\ updated' = 0
  /\ tx' = prof
  /\ UNCHANGED prof
  /\ IF dry_run
     THEN Return(candidate_count', 0, "rewrite_form_history")
     ELSE /\ pc' = "bookmarks_update"
          /\ UNCHANGED <<run, dry_run, outcome, totals, results, start,
                         failedIn>>

bookmarks_update ==
  /\ UNCHANGED restoreVars
  /\ pc = "bookmarks_update"
  /\ UpdateUrlRow

\* conn.commit(); rewrite_bookmarks returns.
bookmarks_commit ==
  /\ UNCHANGED restoreVars
  /\ pc = "bookmarks_update"
  /\ i > Len(rows)
  /\ tx' = prof
  /\ UNCHANGED prof
  /\ Return(candidate_count, updated, "rewrite_form_history")
  /\ UNCHANGED <<clock, baks, lastSnap, invoked, entry>>
  /\ UNCHANGED loopVars

\* A statement of the transaction raises sqlite3.Error; conn.close() drops
\* the open transaction.
bookmarks_raise ==
  /\ UNCHANGED restoreVars
  /\ pc = "bookmarks_update"
  /\ prof' = Rollback("places")
  /\ Raise("bookmarks")
  /\ UNCHANGED <<clock, baks, lastSnap, tx, invoked, entry>>
  /\ UNCHANGED loopVars

rewrite_bookmarks ==
  \/ bookmarks_open
  \/ bookmarks_update
  \/ bookmarks_commit
  \/ bookmarks_raise

\* ------------------------------------------------------------ form history

\* SELECT id, origin FROM moz_formhistory WHERE origin LIKE ?
SelectFormHistory(db) ==
  SelectSeq([k \in 1..Len(db.rows) |-> [id |-> k, url |-> db.rows[k]]],
            LAMBDA r : LikeOld(r.url))

\* form_history_missing, had a missing formhistory.sqlite been an error as a
\* missing places.sqlite is.
form_history_missing_raises ==
  /\ UNCHANGED restoreVars
  /\ pc = "rewrite_form_history"
  /\ ~prof.formhistory.exists
  /\ Call("form_history")
  /\ Raise("form_history")
  /\ UNCHANGED <<clock, prof, baks, lastSnap, tx>>
  /\ UNCHANGED loopVars

\* formhistory.sqlite missing: "skipping form history", return 0, 0.
form_history_missing ==
  /\ UNCHANGED restoreVars
  /\ pc = "rewrite_form_history"
  /\ ~prof.formhistory.exists
  /\ Call("form_history")
  /\ UNCHANGED prof
  /\ Return(0, 0, "rewrite_cookies")
  /\ UNCHANGED <<clock, baks, lastSnap, tx>>
  /\ UNCHANGED loopVars

\* rewrite_form_history up to one of its early returns or BEGIN IMMEDIATE.
form_history_open ==
  /\ UNCHANGED restoreVars
  /\ pc = "rewrite_form_history"
  /\ prof.formhistory.exists
  /\ Call("form_history")
  /\ \E ts \in timestamp_str : backup_file("formhistory", ts)
  /\ tx' = prof
  /\ UNCHANGED prof
  /\ IF ~prof.formhistory.has_origin
     THEN /\ Return(0, 0, "rewrite_cookies")
          /\ UNCHANGED loopVars
     ELSE /\ rows' = SelectFormHistory(prof.formhistory)
          /\ candidate_count' = Len(rows')
          /\ i' = 1
          /\ updated' = 0
          /\ IF dry_run
             THEN Return(candidate_count', 0, "rewrite_cookies")
             ELSE /\ pc' = "form_history_update"
                  /\ UNCHANGED <<run, dry_run, outcome, totals, results,
                                 start, failedIn>>

\* One iteration of `for fid, origin in rows`.
form_history_update ==
  /\ UNCHANGED restoreVars
  /\ pc = "form_history_update"
  /\ i <= Len(rows)
  /\ LET origin == rows[i].url
         new_origin == replace_host_suffix_in_url(origin)
     IN  IF origin # <<>> /\ Truthy(new_origin) /\ new_origin # origin
         THEN /\ prof' = [prof EXCEPT !.formhistory.rows[rows[i].id] = new_origin]
              /\ updated' = updated + 1
         ELSE UNCHANGED <<prof, updated>>
  /\ i' = i + 1
  /\ UNCHANGED <<clock, baks, lastSnap, run, dry_run, pc, outcome, totals,
                 rows, candidate_count, tx, entry, results>>
  /\ UNCHANGED auxVars

form_history_commit ==
  /\ UNCHANGED restoreVars
  /\ pc = "form_history_update"
  /\ i > Len(rows)
  /\ tx' = prof
  /\ UNCHANGED prof
  /\ Return(candidate_count, updated, "rewrite_cookies")
  /\ UNCHANGED <<clock, baks, lastSnap, invoked, entry>>
  /\ UNCHANGED loopVars

form_history_raise ==
  /\ UNCHANGED restoreVars
  /\ pc = "form_history_update"
  /\ prof' = Rollback("formhistory")
  /\ Raise("form_history")
  /\ UNCHANGED <<clock, baks, lastSnap, tx, invoked, entry>>
  /\ UNCHANGED loopVars

rewrite_form_history ==
  \/ form_history_missing
  \/ form_history_open
  \/ form_history_update
  \/ form_history_commit
  \/ form_history_raise

\* ----------------------------------------------------------------- cookies

\* The rows of a table (a set of records with an id) in id order.
InIdOrder(table) ==
  LET ids == {r.id : r \in table}
      top == IF ids = {} THEN 0 ELSE CHOOSE x \in ids : \A y \in ids : y <= x
  IN  SelectSeq([k \in 1..top |->
                   IF k \in ids THEN CHOOSE r \in table : r.id = k
                   ELSE [id |-> 0]],
                LAMBDA r : r.id # 0)

\* SELECT ... FROM moz_cookies WHERE host LIKE ?, then the will_update list:
\* the rows replace_cookie_host changes, each with its new_host.
WillUpdate(db) ==
  LET sel == SelectSeq(InIdOrder(db.rows), LAMBDA r : LikeOld(r.host))
      hit == SelectSeq(sel, LAMBDA r :
                 /\ Truthy(replace_cookie_host(r.host))
                 /\ replace_cookie_host(r.host) # r.host)
  IN  [k \in 1..Len(hit) |->
         [id |-> hit[k].id, name |-> hit[k].name, host |-> hit[k].host,
          path |-> hit[k].path, oa |-> hit[k].oa,
          new_host |-> replace_cookie_host(hit[k].host)]]

\* SELECT id FROM moz_cookies WHERE name = ? AND host = ? AND path = ? AND
\* originAttributes = ?: the rows at the candidate's new key.
AtNewKey(table, c) ==
  {r \in table : r.name = c.name /\ r.host = c.new_host /\ r.path = c.path
                 /\ r.oa = c.oa}

\* cookies.sqlite missing: "skipping cookies", return 0, 0.
cookies_missing ==
  /\ UNCHANGED restoreVars
  /\ pc = "rewrite_cookies"
  /\ ~prof.cookies.exists
  /\ Call("cookies")
  /\ UNCHANGED prof
  /\ Return(0, 0, "rewrite_logins")
  /\ UNCHANGED <<clock, baks, lastSnap, tx>>
  /\ UNCHANGED loopVars

\* cookies_open, had it not looked at dry_run.
cookies_open_ignores_dry_run ==
  /\ UNCHANGED restoreVars
  /\ pc = "rewrite_cookies"
  /\ prof.cookies.exists
  /\ Call("cookies")
  /\ \E ts \in timestamp_str : backup_file("cookies", ts)
  /\ rows' = WillUpdate(prof.cookies)
  /\ candidate_count' = Len(rows')
  /\ i' = 1
  /\ updated' = 0
  /\ tx' = prof
  /\ UNCHANGED prof
  /\ pc' = "cookies_probe"
  /\ UNCHANGED <<run, dry_run, outcome, totals, results, start, failedIn>>

\* rewrite_cookies up to the dry-run return or BEGIN IMMEDIATE.
cookies_open ==
  /\ UNCHANGED restoreVars
  /\ pc = "rewrite_cookies"
  /\ prof.cookies.exists
  /\ Call("cookies")
  /\ \E ts \in timestamp_str : backup_file("cookies", ts)
  /\ rows' = WillUpdate(prof.cookies)
  /\ candidate_count' = Len(rows')
  /\ i' = 1
  /\ updated' = 0
  /\ tx' = prof
  /\ UNCHANGED prof
  /\ IF dry_run
     THEN Return(candidate_count', 0, "rewrite_logins")
     ELSE /\ pc' = "cookies_probe"
          /\ UNCHANGED <<run, dry_run, outcome, totals, results, start,
                         failedIn>>

\* cookies_probe, had it not deleted the row at the new key.
cookies_probe_no_delete ==
  /\ UNCHANGED restoreVars
  /\ pc = "cookies_probe"
  /\ i <= Len(rows)
  /\ pc' = "cookies_update"
  /\ UNCHANGED <<clock, prof, baks, lastSnap, run, dry_run, outcome, totals,
                 tx, entry, results>>
  /\ UNCHANGED loopVars
  /\ UNCHANGED auxVars

\* The probe for a row at the new key (LIMIT 1) and its DELETE.
cookies_probe ==
  /\ UNCHANGED restoreVars
  /\ pc = "cookies_probe"
  /\ i <= Len(rows)
  /\ LET found == AtNewKey(prof.cookies.rows, rows[i])
     IN  IF found = {} THEN UNCHANGED prof
         ELSE \E exists \in found :
                prof' = [prof EXCEPT !.cookies.rows = @ \ {exists}]
  /\ pc' = "cookies_update"
  /\ UNCHANGED <<clock, baks, lastSnap, run, dry_run, outcome, totals, tx,
                 entry, results>>
  /\ UNCHANGED loopVars
  /\ UNCHANGED auxVars

\* UPDATE moz_cookies SET host = ? WHERE id = ?
cookies_update ==
  /\ UNCHANGED restoreVars
  /\ pc = "cookies_update"
  /\ prof' = [prof EXCEPT !.cookies.rows =
                {IF r.id = rows[i].id
                 THEN [r EXCEPT !.host = rows[i].new_host] ELSE r : r \in @}]
  /\ updated' = updated + 1
  /\ i' = i + 1
  /\ pc' = "cookies_probe"
  /\ UNCHANGED <<clock, baks, lastSnap, run, dry_run, outcome, totals, rows,
                 candidate_count, tx, entry, results>>
  /\ UNCHANGED auxVars

\* conn.commit(); rewrite_cookies returns candidates, updated.
cookies_commit ==
  /\ UNCHANGED restoreVars
  /\ pc = "cookies_probe"
  /\ i > Len(rows)
  /\ tx' = prof
  /\ UNCHANGED prof
  /\ Return(candidate_count, updated, "rewrite_logins")
  /\ UNCHANGED <<clock, baks, lastSnap, invoked, entry>>
  /\ UNCHANGED loopVars

\* except Exception: conn.rollback(), "Cookie rewrite failed", return 0, 0.
cookies_except ==
  /\ UNCHANGED restoreVars
  /\ pc \in {"cookies_probe", "cookies_update"}
  /\ prof' = Rollback("cookies")
  /\ failedIn' = "cookies"
  /\ pc' = "rewrite_logins"
  /\ UNCHANGED <<clock, baks, lastSnap, run, dry_run, outcome, totals, tx,
                 start, invoked, entry, results>>
  /\ UNCHANGED loopVars

rewrite_cookies ==
  \/ cookies_missing
  \/ cookies_open
  \/ cookies_probe
  \/ cookies_update
  \/ cookies_commit
  \/ cookies_except

\* ------------------------------------------------------------------ logins

\* One field of a login: `if val and OLD_DOMAIN_SUFFIX in val` (httpRealm
\* also needs a scheme), then `replace_host_suffix_in_url(val) or val`.
LoginField(val, needs_scheme) ==
  LET hit == /\ Truthy(val)
             /\ needs_scheme => StartsWith(val, <<SCHEME>>)
             /\ Contains(val, OLD_DOMAIN_SUFFIX)
      r == replace_host_suffix_in_url(val)
      new_val == IF hit /\ Truthy(r) THEN r ELSE val
  IN  [val |-> new_val,
       cand |-> IF hit THEN 1 ELSE 0,
       upd |-> IF hit /\ new_val # val THEN 1 ELSE 0]

\* The loop over data["logins"]: the list after it, cand and upd.
RECURSIVE RewriteLogins(_)
RewriteLogins(list) ==
  IF list = <<>> THEN [logins |-> <<>>, cand |-> 0, upd |-> 0]
  ELSE LET login == Head(list)
           h == LoginField(login.hostname, FALSE)
           f == LoginField(login.formSubmitURL, FALSE)
           r == LoginField(login.httpRealm, TRUE)
           rest == RewriteLogins(Tail(list))
       IN  [logins |-> <<Login(h.val, f.val, r.val)>> \o rest.logins,
            cand |-> h.cand + f.cand + r.cand + rest.cand,
            upd |-> h.upd + f.upd + r.upd + rest.upd]

\* logins.json missing: "skipping saved logins", return 0, 0.
logins_missing ==
  /\ UNCHANGED restoreVars
  /\ pc = "rewrite_logins"
  /\ ~prof.logins.exists
  /\ Call("logins")
  /\ UNCHANGED prof
  /\ Return(0, 0, "totals")
  /\ UNCHANGED <<clock, baks, lastSnap, tx>>
  /\ UNCHANGED loopVars

\* rewrite_logins up to the dry-run return or the write of the file.
logins_open ==
  /\ UNCHANGED restoreVars
  /\ pc = "rewrite_logins"
  /\ prof.logins.exists
  /\ Call("logins")
  /\ \E ts \in timestamp_str : backup_file("logins", ts)
  /\ LET data == RewriteLogins(prof.logins.logins)
     IN  /\ rows' = data.logins
         /\ candidate_count' = data.cand
         /\ updated' = data.upd
  /\ i' = 1
  /\ UNCHANGED <<prof, tx>>
  /\ IF dry_run
     THEN Return(candidate_count', 0, "totals")
     ELSE /\ pc' = "logins_write"
          /\ UNCHANGED <<run, dry_run, outcome, totals, results, start,
                         failedIn>>

\* path.open("w"), json.dump, f.write: the file is replaced as a whole.
logins_write ==
  /\ UNCHANGED restoreVars
  /\ pc = "logins_write"
  /\ prof' = [prof EXCEPT !.logins.logins = rows]
  /\ tx' = prof'
  /\ Return(candidate_count, updated, "totals")
  /\ UNCHANGED <<clock, baks, lastSnap, invoked, entry>>
  /\ UNCHANGED loopVars

\* The write raises OSError after open("w") has truncated the file.
logins_write_raise ==
  /\ UNCHANGED restoreVars
  /\ pc = "logins_write"
  /\ prof' = [prof EXCEPT !.logins.logins = <<>>, !.logins.intact = FALSE]
  /\ Raise("logins")
  /\ UNCHANGED <<clock, baks, lastSnap, tx, invoked, entry>>
  /\ UNCHANGED loopVars

rewrite_logins ==
  \/ logins_missing
  \/ logins_open
  \/ logins_write
  \/ logins_write_raise

\* ------------------------------------------------------------ orchestrator

\* The rewriters in rewrite_all's order, each with its store file.
REWRITERS ==
  << [fn |-> "history", file |-> "places"],
     [fn |-> "bookmarks", file |-> "places"],
     [fn |-> "form_history", file |-> "formhistory"],
     [fn |-> "cookies", file |-> "cookies"],
     [fn |-> "logins", file |-> "logins"] >>

\* shutil.copy2 in backup_file raises OSError before it has written the
\* destination (the snapshot cannot be created): the error leaves the
\* rewriter, which has done nothing yet.
backup_raise ==
  /\ UNCHANGED restoreVars
  /\ \E k \in 1..Len(REWRITERS) :
       /\ pc = "rewrite_" \o REWRITERS[k].fn
       /\ prof[REWRITERS[k].file].exists
       /\ Call(REWRITERS[k].fn)
       /\ Raise(REWRITERS[k].fn)
  /\ UNCHANGED <<clock, prof, baks, lastSnap, tx>>
  /\ UNCHANGED loopVars

rewrite_all ==
  \/ rewrite_history
  \/ rewrite_bookmarks
  \/ rewrite_form_history
  \/ rewrite_cookies
  \/ rewrite_logins
  \/ backup_raise
  \/ rewrite_all_done

\* One invocation of `rewrite-all`, in which store operations may fail.
Next ==
  \/ run = 0 /\ main
  \/ rewrite_all

Spec == Init /\ [][Next]_vars

\* The steps of rewrite_all in which nothing fails.
rewrite_all_no_failure ==
  \/ history_missing
  \/ history_open
  \/ history_update
  \/ history_commit
  \/ origins_host
  \/ origins_rev_host
  \/ origins_commit
  \/ bookmarks_open
  \/ bookmarks_update
  \/ bookmarks_commit
  \/ form_history_missing
  \/ form_history_open
  \/ form_history_update
  \/ form_history_commit
  \/ cookies_missing
  \/ cookies_open
  \/ cookies_probe
  \/ cookies_update
  \/ cookies_commit
  \/ logins_missing
  \/ logins_open
  \/ logins_write
  \/ rewrite_all_done

\* A session: up to MaxRuns invocations of `rewrite-all` on the same profile,
\* each in either mode, in which no store operation fails.
NextSession ==
  \/ main
  \/ rewrite_all_no_failure

SpecSession == Init /\ [][NextSession]_vars

\* ----------------------------------------------------------------- restore

rewriteFrame == <<prof, baks, lastSnap, run, dry_run, pc, outcome, totals,
                  rows, i, candidate_count, updated, tx, start, entry,
                  invoked, failedIn, results>>

\* restore_profile raises at `stage`; main prints the error and exits.
RestoreRaise(stage) ==
  /\ rpc' = "raised"
  /\ rlog' = [rlog EXCEPT !.stage = stage]

\* src.exists() and src.is_dir() fail: FileNotFoundError.
restore_not_found ==
  /\ rpc = "restore_profile"
  /\ ~(fsys.src.exists /\ fsys.src.is_dir)
  /\ RestoreRaise("source")
  /\ UNCHANGED <<clock, fsys>>
  /\ UNCHANGED rewriteFrame

\* copytree_verbose, had it gone on to the delete loop after a copy that
\* left entries out (the error of shutil.copytree swallowed).
copytree_verbose_swallowed(ts, failed) ==
  IF \E d \in fsys.siblings : d.ts = ts
  THEN /\ RestoreRaise("snapshot")
       /\ UNCHANGED fsys
  ELSE /\ fsys' = [fsys EXCEPT !.siblings =
                     @ \cup {[ts |-> ts,
                              dir |-> [n \in NAMES |->
                                         IF n \in failed THEN 0
                                         ELSE fsys.target[n]]]}]
       /\ rpc' = "clearing"
       /\ rlog' = [rlog EXCEPT !.snap = ts]

\* copytree_verbose, had it copied over an existing destination (no
\* dst.exists() check, copytree with dirs_exist_ok).
copytree_verbose_unchecked(ts, failed) ==
  /\ fsys' = [fsys EXCEPT !.siblings =
                {d \in @ : d.ts # ts}
                  \cup {[ts |-> ts,
                         dir |-> [n \in NAMES |->
                                    IF n \in failed THEN 0
                                    ELSE fsys.target[n]]]}]
  /\ IF failed # {}
     THEN RestoreRaise("snapshot")
     ELSE /\ rpc' = "clearing"
          /\ rlog' = [rlog EXCEPT !.snap = ts]

\* copytree_verbose(prof, pre_restore_dir): FileExistsError when the
\* destination exists; else shutil.copytree, which copies what it can and
\* raises at the end when some entries (failed) could not be copied.
copytree_verbose(ts, failed) ==
  IF \E d \in fsys.siblings : d.ts = ts
  THEN /\ RestoreRaise("snapshot")
       /\ UNCHANGED fsys
  ELSE /\ fsys' = [fsys EXCEPT !.siblings =
                     @ \cup {[ts |-> ts,
                              dir |-> [n \in NAMES |->
                                         IF n \in failed THEN 0
                                         ELSE fsys.target[n]]]}]
       /\ IF failed # {}
          THEN RestoreRaise("snapshot")
          ELSE /\ rpc' = "clearing"
               /\ rlog' = [rlog EXCEPT !.snap = ts]

\* restore_profile from the source check to the end of the pre-restore copy.
restore_snapshot ==
  /\ rpc = "restore_profile"
  /\ fsys.src.exists /\ fsys.src.is_dir
  /\ \E ts \in timestamp_str :
       /\ clock' = ts
       /\ \E failed \in SUBSET Entries(fsys.target) : copytree_verbose(ts, failed)
  /\ UNCHANGED rewriteFrame

\* One iteration of `for item in prof.iterdir()`: rmtree or unlink.
restore_delete ==
  /\ rpc = "clearing"
  /\ \E item \in Entries(fsys.target) :
       /\ fsys' = [fsys EXCEPT !.target[item] = 0]
       /\ rlog' = [rlog EXCEPT !.deleted = @ \cup {item}]
  /\ UNCHANGED <<clock, rpc>>
  /\ UNCHANGED rewriteFrame

\* rmtree or unlink raises OSError on an entry.
restore_delete_raise ==
  /\ rpc = "clearing"
  /\ Entries(fsys.target) # {}
  /\ RestoreRaise("clear")
  /\ UNCHANGED <<clock, fsys>>
  /\ UNCHANGED rewriteFrame

\* The directory is empty: "Restoring from".
restore_cleared ==
  /\ rpc = "clearing"
  /\ Entries(fsys.target) = {}
  /\ rpc' = "restoring"
  /\ UNCHANGED <<clock, fsys, rlog>>
  /\ UNCHANGED rewriteFrame

\* One iteration of `for item in src.iterdir()`: copytree or copy2.
restore_copy ==
  /\ rpc = "restoring"
  /\ \E item \in Entries(fsys.src.dir) \ rlog.copied :
       /\ fsys' = [fsys EXCEPT !.target[item] = fsys.src.dir[item]]
       /\ rlog' = [rlog EXCEPT !.copied = @ \cup {item}]
  /\ UNCHANGED <<clock, rpc>>
  /\ UNCHANGED rewriteFrame

\* copytree or copy2 raises on an entry.
restore_copy_raise ==
  /\ rpc = "restoring"
  /\ Entries(fsys.src.dir) \ rlog.copied # {}
  /\ RestoreRaise("copy_back")
  /\ UNCHANGED <<clock, fsys>>
  /\ UNCHANGED rewriteFrame

\* "Restore completed."
restore_done ==
  /\ rpc = "restoring"
  /\ Entries(fsys.src.dir) \ rlog.copied = {}
  /\ rpc' = "done"
  /\ UNCHANGED <<clock, fsys, rlog>>
  /\ UNCHANGED rewriteFrame

restore_profile ==
  \/ restore_not_found
  \/ restore_snapshot
  \/ restore_delete
  \/ restore_delete_raise
  \/ restore_cleared
  \/ restore_copy
  \/ restore_copy_raise
  \/ restore_done

\* main, command restore, on a target directory, a source path and the
\* pre-restore directories that earlier restores left beside the target.
InitRestore ==
  /\ InitRewrite({NoProfile})
  /\ \E target \in Dirs, src \in Sources,
        siblings \in {{}, {[ts |-> 0, dir |-> EmptyDir]}} :
       /\ fsys = [target |-> target, src |-> src, siblings |-> siblings]
       /\ rlog = [NoRestoreLog EXCEPT !.target0 = target,
                                      !.siblings0 = siblings]
  /\ rpc = "restore_profile"

SpecRestore == InitRestore /\ [][restore_profile]_vars

\* ================================================================== properties

\* The pre-restore snapshot of the restore in progress is a directory beside
\* the target that was not there before and holds the target's entries as
\* they were when restore_profile was called.
PreRestoreComplete ==
  \E d \in fsys.siblings :
    /\ d.ts = rlog.snap
    /\ d.dir = rlog.target0
    /\ d \notin rlog.siblings0

\* C1 as stated: a restore that ends with an error has deleted no entry of
\* the target directory.
C1_RaisesBeforeAnyDeletion ==
  rpc = "raised" => rlog.deleted = {}

\* C1 as amended: a restore that ends with an error of the source check or
\* of the pre-restore copy has deleted nothing and left the target as it
\* was; one that ends with an error of a delete or copy-back step may have
\* deleted entries, and then the complete pre-restore snapshot exists.
C1_RaisesBeforeDeletionOrAfterSnapshot ==
  rpc = "raised" =>
    IF rlog.stage \in {"source", "snapshot"}
    THEN rlog.deleted = {} /\ fsys.target = rlog.target0
    ELSE rlog.stage \in {"clear", "copy_back"} /\ PreRestoreComplete

\* C1's case: the pre-restore copy of a non-empty target failed.
C1_Witness ==
  /\ rpc = "raised"
  /\ rlog.stage = "snapshot"
  /\ Entries(rlog.target0) # {}

\* C2: nothing is deleted or copied back before the pre-restore snapshot is
\* complete; a successful restore leaves exactly one new directory beside
\* the target, holding the target's previous entries, and keeps the ones
\* that were there; a restore that stops at the source check or at the
\* snapshot has neither deleted nor copied back.
C2_SnapshotBeforeDelete ==
  /\ (rlog.deleted # {} \/ rlog.copied # {}) => PreRestoreComplete
  /\ rpc \in {"clearing", "restoring", "done"} => PreRestoreComplete
  /\ rpc = "done" =>
       /\ rlog.siblings0 \subseteq fsys.siblings
       /\ fsys.siblings \ rlog.siblings0
            = {[ts |-> rlog.snap, dir |-> rlog.target0]}
  /\ (rpc = "raised" /\ rlog.stage \in {"source", "snapshot"}) =>
       /\ rlog.deleted = {}
       /\ rlog.copied = {}
       /\ fsys.target = rlog.target0

\* C2's case: a restore has deleted entries, copied entries back and ended.
C2_Witness ==
  /\ rpc = "done"
  /\ rlog.deleted # {}
  /\ rlog.copied # {}
  /\ rlog.siblings0 # {}

\* A mutate-mode invocation of rewrite_all is in progress or has ended.
MutateRun == run > 0 /\ ~dry_run

\* C3 as stated: the destination of every snapshot a rewriter takes did not
\* exist when backup_file copied to it.
C3_SnapshotDestinationIsNew ==
  ~lastSnap.existed

\* C4 as stated: during and after a mutate-mode run, every store file the
\* run has changed has a snapshot holding the store as it was when the run
\* started.
C4_OriginalRecoverable ==
  MutateRun =>
    \A f \in FILES :
      prof[f] # start[f] =>
        \E b \in baks : b.file = f /\ b.content = start[f]

\* The old suffix stands at a label boundary at token j of s: the token
\* before it is a "." or the scheme (or there is none), and the token after
\* it is a ":" or a "/" (or there is none).
AtLabelBoundary(s, j) ==
  /\ LowerTok(s[j]) = OLD
  /\ j = 1 \/ s[j - 1] \in {".", SCHEME}
  /\ j = Len(s) \/ s[j + 1] \in {":", "/"}
HasBoundaryOccurrence(s) == \E j \in 1..Len(s) : AtLabelBoundary(s, j)

\* C5 as stated: a url or a cookie host in which the old suffix stands at no
\* label boundary gets no match from the rule, and a mutate-mode run leaves
\* it as it was.
C5_BoundaryGuard ==
  MutateRun =>
    /\ \A k \in 1..Len(start.places.moz_places) :
         LET url == start.places.moz_places[k]
         IN  ~HasBoundaryOccurrence(url) =>
               /\ replace_host_suffix_in_url(url) = None
               /\ prof.places.moz_places[k] = url
    /\ \A c \in start.cookies.rows :
         ~HasBoundaryOccurrence(c.host) =>
           /\ replace_cookie_host(c.host) = None
           /\ \A r \in prof.cookies.rows : r.id = c.id => r.host = c.host

\* C6 as stated: the second of two consecutive completed mutate-mode runs
\* updates nothing.
C6_SecondRunUpdatesNothing ==
  \A k \in 2..Len(results) :
    ( /\ ~results[k - 1].dry_run /\ results[k - 1].outcome = "done"
      /\ ~results[k].dry_run /\ results[k].outcome = "done" )
    => results[k].totals.updated = 0

\* C10 as stated: once a store operation of a rewriter has failed, no later
\* rewriter is called and the run does not end by printing totals.
C10_FailureStopsRun ==
  failedIn # "" =>
    /\ invoked[Len(invoked)] = failedIn
    /\ outcome # "done"
    /\ pc \notin {"rewrite_logins", "logins_write", "totals"}

\* ------------------------------------------------------------------ C7

CookieKey(r) == <<r.name, r.host, r.path, r.oa>>
UniqueKeys(table) ==
  \A r1, r2 \in table : CookieKey(r1) = CookieKey(r2) => r1 = r2
CandidateIds == {rows[k].id : k \in 1..Len(rows)}

\* C7: a cookie table with one row per key keeps one row per key in every
\* state of a run; when the UPDATE of a candidate is due no row is left at
\* its new key; right after it the row at that key is the candidate; and
\* when the loop has ended the rows at the candidates' new keys are
\* rewritten candidates, and the rows that were at those keys before the
\* transaction are gone.
C7_CookieUniqueness ==
  (run > 0 /\ UniqueKeys(start.cookies.rows)) =>
    /\ UniqueKeys(prof.cookies.rows)
    /\ pc = "cookies_update" => AtNewKey(prof.cookies.rows, rows[i]) = {}
    /\ (pc = "cookies_probe" /\ i > 1) =>
         {r.id : r \in AtNewKey(prof.cookies.rows, rows[i - 1])}
           = {rows[i - 1].id}
    /\ (pc = "cookies_probe" /\ i > Len(rows)) =>
         \A k \in 1..Len(rows) :
           /\ \A r \in AtNewKey(prof.cookies.rows, rows[k]) :
                r.id \in CandidateIds
           /\ \A old \in AtNewKey(tx.cookies.rows, rows[k]) :
                \A r \in prof.cookies.rows : r.id # old.id

\* C7's case: two candidates have been rewritten to the same key and a row
\* has been deleted for it.
C7_Witness ==
  /\ pc = "cookies_probe"
  /\ i > Len(rows)
  /\ Len(rows) >= 2
  /\ rows[1].new_host = rows[2].new_host
  /\ Cardinality(prof.cookies.rows) < Cardinality(tx.cookies.rows)

\* ------------------------------------------------------------------ C8

\* The rule changes the value u of a row the LIKE filter selects.
RuleChanges(u) ==
  /\ LikeOld(u)
  /\ Truthy(replace_host_suffix_in_url(u))
  /\ replace_host_suffix_in_url(u) # u
RuleApplied(u) == IF RuleChanges(u) THEN replace_host_suffix_in_url(u) ELSE u

\* How many elements of a sequence satisfy P.
Count(seq, P(_)) == Cardinality({k \in 1..Len(seq) : P(seq[k])})

\* What a mutate-mode run in which nothing fails returns for the profile p:
\* per store, the rows the filter selects and the rows the rule changes
\* (bookmarks: per bookmark, on the urls the history pass has left).
MutateTotals(p) ==
  LET urls == p.places.moz_places
      after == [k \in 1..Len(urls) |-> RuleApplied(urls[k])]
      marked == [k \in 1..Len(p.places.moz_bookmarks) |->
                   after[p.places.moz_bookmarks[k]]]
      form == IF p.formhistory.exists /\ p.formhistory.has_origin
              THEN p.formhistory.rows ELSE <<>>
      cookies == IF p.cookies.exists THEN Len(WillUpdate(p.cookies)) ELSE 0
      logins == RewriteLogins(IF p.logins.exists THEN p.logins.logins ELSE <<>>)
  IN  [candidates |-> Count(urls, LikeOld) + Count(marked, LikeOld)
                        + Count(form, LikeOld) + cookies + logins.cand,
       updated |-> Count(urls, RuleChanges) + Count(marked, RuleChanges)
                     + Count(form, RuleChanges) + cookies + logins.upd]

Completed(r) == r.outcome = "done" /\ r.failedIn = ""

\* C8: during and after a dry-run invocation every store is as it was when
\* the invocation began (no row updated or deleted, no file replaced); and
\* a mutate-mode run returns the totals of a mutate-mode run on the profile,
\* whether it is the first run on the profile or follows a dry run on it
\* (stated of each invocation at the moment it has returned to main).
C8_SimulateReadOnly ==
  /\ (run > 0 /\ dry_run) => prof = start
  /\ (pc = "main" /\ results # <<>>) =>
       LET k == Len(results) IN
       (~results[k].dry_run /\ Completed(results[k])) =>
         /\ results[k].totals = MutateTotals(results[k].start)
         /\ (k > 1 /\ results[k - 1].dry_run /\ Completed(results[k - 1])) =>
              results[k].totals = MutateTotals(results[k - 1].start)

\* C8's case: a dry run that saw candidates, then a mutate run that updated.
C8_Witness ==
  /\ Len(results) >= 2
  /\ results[1].dry_run /\ Completed(results[1])
  /\ results[1].totals.candidates > 0
  /\ ~results[2].dry_run /\ Completed(results[2])
  /\ results[2].totals.updated > 0
  /\ results[1].start.cookies.rows # {}

\* ------------------------------------------------------------------ C9

\* The pcs at which a write transaction is open.
TxPcs ==
  {"history_update", "origins_host", "origins_rev_host", "origins_commit",
   "bookmarks_update", "form_history_update", "cookies_probe",
   "cookies_update"}

\* What another connection sees of the stores: the committed content.
Visible == IF pc \in TxPcs THEN tx ELSE prof

\* The rewriter rewrite_all called last, and whether it has returned.
Current == IF invoked = <<>> THEN "" ELSE invoked[Len(invoked)]
Returned(next) == pc = next /\ failedIn = "" /\ ~dry_run

\* All the updates each rewriter computes, applied to its table.
AllUrls(urls) == [k \in 1..Len(urls) |-> RuleApplied(urls[k])]
AllBookmarked(db) ==
  [k \in 1..Len(db.moz_places) |->
     IF \E b \in 1..Len(db.moz_bookmarks) : db.moz_bookmarks[b] = k
     THEN RuleApplied(db.moz_places[k]) ELSE db.moz_places[k]]
AllOrigins(origins) ==
  [k \in 1..Len(origins) |->
     [host |-> Replace(origins[k].host, OLD_DOMAIN_SUFFIX, NEW_DOMAIN_SUFFIX),
      rev_host |-> Replace(origins[k].rev_host, Reverse(OLD_DOMAIN_SUFFIX),
                           Reverse(NEW_DOMAIN_SUFFIX))]]
RECURSIVE AllCookies(_, _)
AllCookies(table, will) ==
  IF will = <<>> THEN table
  ELSE LET c == Head(will)
           kept == table \ AtNewKey(table, c)
       IN  AllCookies({IF r.id = c.id THEN [r EXCEPT !.host = c.new_host]
                       ELSE r : r \in kept}, Tail(will))

\* C9: while a rewriter runs and after it has ended, what is committed of
\* its table is either the table as it was when the rewriter was entered or
\* that table with all the computed updates (and cookie deletes); a
\* mutate-mode rewriter that has returned has committed them all; after a
\* failure in a relational rewriter every store is as it was when that
\* rewriter was entered, which keeps what earlier rewriters committed; and
\* a rewriter changes no store but its own.
C9_PerStoreAtomicity ==
  run > 0 =>
    /\ Current \in {"history", "bookmarks"} =>
         /\ Visible.formhistory = entry.formhistory
         /\ Visible.cookies = entry.cookies
         /\ Visible.logins = entry.logins
    /\ Current = "history" =>
         /\ Visible.places.moz_places
              \in {entry.places.moz_places, AllUrls(entry.places.moz_places)}
         /\ Visible.places.moz_origins
              \in {entry.places.moz_origins,
                   AllOrigins(entry.places.moz_origins)}
         /\ (pc \in {"origins_host", "origins_rev_host", "origins_commit"}
               \/ Returned("rewrite_bookmarks")) =>
              Visible.places.moz_places = AllUrls(entry.places.moz_places)
    /\ Current = "bookmarks" =>
         /\ Visible.places.moz_places
              \in {entry.places.moz_places, AllBookmarked(entry.places)}
         /\ Visible.places.moz_origins = entry.places.moz_origins
         /\ Returned("rewrite_form_history") =>
              Visible.places.moz_places = AllBookmarked(entry.places)
    /\ Current = "form_history" =>
         /\ Visible.formhistory.rows
              \in {entry.formhistory.rows, AllUrls(entry.formhistory.rows)}
         /\ Returned("rewrite_cookies") =>
              Visible.formhistory.rows = AllUrls(entry.formhistory.rows)
         /\ Visible.places = entry.places
         /\ Visible.cookies = entry.cookies
         /\ Visible.logins = entry.logins
    /\ Current = "cookies" =>
         /\ Visible.cookies.rows
              \in {entry.cookies.rows,
                   AllCookies(entry.cookies.rows, WillUpdate(entry.cookies))}
         /\ Returned("rewrite_logins") =>
              Visible.cookies.rows
                = AllCookies(entry.cookies.rows, WillUpdate(entry.cookies))
         /\ Visible.places = entry.places
         /\ Visible.formhistory = entry.formhistory
         /\ Visible.logins = entry.logins
    /\ failedIn \in {"history", "bookmarks", "form_history"} =>
         prof = entry
    /\ (failedIn = "cookies" /\ Current = "cookies") => prof = entry

\* C9's case: an UPDATE of the bookmarks transaction was made, a later
\* statement failed, and the urls rewrite_history committed are in place.
C9_Witness ==
  /\ outcome = "error"
  /\ failedIn = "bookmarks"
  /\ updated > 0
  /\ prof.places = entry.places
  /\ entry.places # start.places

\* ----------------------------------------------------------------- C11

\* The rewriter fn has returned normally to rewrite_all, which is about to
\* call `next`; candidate_count and updated are what it counted.
Counted(fn, next) == run > 0 /\ Current = fn /\ pc = next /\ failedIn = ""

\* How many positions of two sequences of equal length hold different values.
Changed(before, after) ==
  Cardinality({k \in 1..Len(before) : before[k] # after[k]})

\* The fields of a login the logins pass looks at: hostname, formSubmitURL,
\* and httpRealm when it is scheme-qualified.
LoginValues(l) ==
  <<l.hostname, l.formSubmitURL,
    IF StartsWith(l.httpRealm, <<SCHEME>>) THEN l.httpRealm ELSE None>>
RECURSIVE LoginHits(_)
LoginHits(list) ==
  IF list = <<>> THEN 0
  ELSE Cardinality({k \in 1..3 :
                      Contains(LoginValues(Head(list))[k], OLD_DOMAIN_SUFFIX)})
         + LoginHits(Tail(list))
RECURSIVE LoginChanges(_, _)
LoginChanges(before, after) ==
  IF before = <<>> THEN 0
  ELSE Changed(<<Head(before).hostname, Head(before).formSubmitURL,
                 Head(before).httpRealm>>,
               <<Head(after).hostname, Head(after).formSubmitURL,
                 Head(after).httpRealm>>)
         + LoginChanges(Tail(before), Tail(after))

\* C11: when a rewriter has returned, its candidate_count is the number of
\* records (bookmarks: bookmark records; logins: fields) whose value holds
\* the old suffix as a raw substring, whether or not the rule matches it,
\* and in mutate mode its updated count is the number of stored values
\* that differ from what they were when the rewriter was entered.
C11_CandidateUpdatedCounts ==
  /\ Counted("history", "rewrite_bookmarks") =>
       /\ candidate_count
            = Cardinality({k \in 1..Len(entry.places.moz_places) :
                             LikeOld(entry.places.moz_places[k])})
       /\ ~dry_run =>
            updated = Changed(entry.places.moz_places, prof.places.moz_places)
  /\ Counted("bookmarks", "rewrite_form_history") =>
       /\ candidate_count
            = Cardinality({b \in 1..Len(entry.places.moz_bookmarks) :
                LikeOld(entry.places.moz_places[entry.places.moz_bookmarks[b]])})
       /\ ~dry_run =>
            updated = Changed(entry.places.moz_places, prof.places.moz_places)
  /\ (/\ Counted("form_history", "rewrite_cookies")
      /\ entry.formhistory.exists /\ entry.formhistory.has_origin) =>
       /\ candidate_count
            = Cardinality({k \in 1..Len(entry.formhistory.rows) :
                             LikeOld(entry.formhistory.rows[k])})
       /\ ~dry_run =>
            updated = Changed(entry.formhistory.rows, prof.formhistory.rows)
  /\ (Counted("cookies", "rewrite_logins") /\ entry.cookies.exists) =>
       /\ candidate_count
            = Cardinality({r \in entry.cookies.rows : LikeOld(r.host)})
       /\ ~dry_run =>
            updated = Cardinality({r \in entry.cookies.rows :
                         \E q \in prof.cookies.rows :
                           q.id = r.id /\ q.host # r.host})
  /\ (Counted("logins", "totals") /\ entry.logins.exists) =>
       /\ candidate_count = LoginHits(entry.logins.logins)
       /\ ~dry_run =>
            updated = LoginChanges(entry.logins.logins, prof.logins.logins)

\* ----------------------------------------------------------------- C12

\* The step of a rewriter that finds its store file missing.
Untouched == prof' = prof /\ baks' = baks /\ tx' = tx /\ lastSnap' = lastSnap
Skips(next) ==
  /\ Untouched
  /\ totals' = totals
  /\ pc' = next
  /\ outcome' = outcome /\ outcome = "running"
  /\ failedIn' = failedIn

MissingStoreStep ==
  /\ (pc = "rewrite_history" /\ ~prof.places.exists) =>
       /\ prof = start
       /\ Untouched
       /\ outcome' = "error" /\ pc' = "exit"
       /\ invoked' = <<"history">>
  /\ (pc = "rewrite_form_history" /\ ~prof.formhistory.exists) =>
       /\ Skips("rewrite_cookies")
       /\ invoked' = Append(invoked, "form_history")
  /\ (pc = "rewrite_cookies" /\ ~prof.cookies.exists) =>
       /\ Skips("rewrite_logins")
       /\ invoked' = Append(invoked, "cookies")
  /\ (pc = "rewrite_logins" /\ ~prof.logins.exists) =>
       /\ Skips("totals")
       /\ invoked' = Append(invoked, "logins")

\* C12: a rewrite_all run that finds places.sqlite missing ends in an
\* error in its first step, with every store as it was when the run began,
\* no snapshot created and no database opened; a rewriter that finds its
\* optional store file (formhistory.sqlite, cookies.sqlite, logins.json)
\* missing adds (0, 0) to the totals, creates no snapshot, changes nothing,
\* and rewrite_all goes on to the next rewriter in its order.
C12_MissingStores == [][MissingStoreStep]_vars

\* C12's case: a run went through all five rewriters although the three
\* optional store files were missing, and no snapshot of them was made.
C12_Witness ==
  /\ pc = "totals"
  /\ invoked = <<"history", "bookmarks", "form_history", "cookies", "logins">>
  /\ ~prof.formhistory.exists /\ ~prof.cookies.exists /\ ~prof.logins.exists
  /\ totals.updated > 0
  /\ baks # {}
  /\ \A b \in baks : b.file = "places"

\* ----------------------------------------------------------------- C13

\* The host is the old suffix or ends with "." and the old suffix.
EndsAtLabelBoundary(host) ==
  /\ EndsWith(host, OLD_DOMAIN_SUFFIX)
  /\ Len(host) > Len(OLD_DOMAIN_SUFFIX) =>
       host[Len(host) - Len(OLD_DOMAIN_SUFFIX)] = "."

\* C13: when a mutate-mode rewrite_history has returned, every moz_origins
\* row whose host did not end with the old suffix at a label boundary has
\* the host and rev_host it had when the rewriter was entered; and when the
\* preceding invocation was a completed mutate-mode run, no moz_origins row
\* has changed at all.
C13_HostIndexFrame ==
  (Counted("history", "rewrite_bookmarks") /\ ~dry_run) =>
    /\ \A k \in 1..Len(entry.places.moz_origins) :
         ~EndsAtLabelBoundary(entry.places.moz_origins[k].host) =>
           prof.places.moz_origins[k] = entry.places.moz_origins[k]
    /\ (/\ results # <<>>
        /\ ~results[Len(results)].dry_run
        /\ Completed(results[Len(results)])) =>
         prof.places.moz_origins = entry.places.moz_origins

====
